---- MODULE Spec2Model ----
(***************************************************************************)
(* ASO_Wise (src/aso_wise/agent.py): a four-stage sequential agent          *)
(* pipeline over a shared context, its backend retry options, and the      *)
(* validate_app_store_content tool.                                        *)
(*                                                                         *)
(* agent.py holds the validator in full and the DECLARATION of the         *)
(* pipeline: the ordered sub_agents, each agent's output_key, tools and     *)
(* instruction placeholders, and retry_config.  The engine that runs the   *)
(* declaration (the sequential executor, a stage's reasoning loop, the     *)
(* retry layer) is not in agent.py; it is modelled from spec.md sections    *)
(* 4.1 to 4.3 and 7, and every definition modelled that way says so.        *)
(***************************************************************************)
EXTENDS Integers, Sequences, FiniteSets, TLC

VARIABLES
    \* ---- validate_app_store_content: one call
    title,          \* argument: a sequence of one-character strings
    description,    \* argument: a sequence of one-character strings
    store,          \* argument: any string
    vpc,            \* "idle" | "called" | "returned"
    result,         \* <<>> until the call returns, then <<the dict handed to json.dumps>>
    \* ---- one run of root_agent
    pc,             \* "off" | "ready" | "calling" | "done" | "failed"
    stage,          \* index into sub_agents of the stage that is next or in progress
    started,        \* names of the stages started so far, in order
    completed,      \* names of the stages completed so far, in order
    context,        \* Shared Context: entries [key, value, writer] in insertion order
    rounds,         \* tool-call rounds of the stage in progress
    attempt,        \* number of the current (or last) attempt of the current backend call
    callWait,       \* total backoff wait spent in the current backend call
    failLog,        \* statuses of the failed attempts of the current backend call
    final,          \* <<>> until the aggregator's text is returned, then <<text>>
    error           \* <<>> or <<[stage, kind]>>: the run's terminal error

vvars == <<title, description, store, vpc, result>>
pvars == <<pc, stage, started, completed, context, rounds, attempt, callWait,
           failLog, final, error>>
vars == <<title, description, store, vpc, result, pc, stage, started, completed,
          context, rounds, attempt, callWait, failLog, final, error>>

(***************************************************************************)
(* Text helpers: Python's len, str.lower, str.split() and "in" on str.      *)
(***************************************************************************)
UpperCase == <<"A","B","C","D","E","F","G","H","I","J","K","L","M",
               "N","O","P","Q","R","S","T","U","V","W","X","Y","Z">>
LowerCase == <<"a","b","c","d","e","f","g","h","i","j","k","l","m",
               "n","o","p","q","r","s","t","u","v","w","x","y","z">>

LowerChar(c) ==
    IF \E i \in 1..26 : UpperCase[i] = c
    THEN LowerCase[CHOOSE i \in 1..26 : UpperCase[i] = c]
    ELSE c

\* str.lower()
lower(s) == [i \in 1..Len(s) |-> LowerChar(s[i])]

Whitespace == {" ", "\t", "\n"}

\* str.split(): the maximal runs of non-whitespace characters, in order
RECURSIVE SplitFrom(_, _, _)
SplitFrom(s, i, word) ==
    IF i > Len(s)
    THEN IF word = <<>> THEN <<>> ELSE <<word>>
    ELSE IF s[i] \in Whitespace
         THEN IF word = <<>>
              THEN SplitFrom(s, i + 1, <<>>)
              ELSE <<word>> \o SplitFrom(s, i + 1, <<>>)
         ELSE SplitFrom(s, i + 1, Append(word, s[i]))

split(s) == SplitFrom(s, 1, <<>>)

\* term in s
Contains(s, term) ==
    \E i \in 0..(Len(s) - Len(term)) : SubSeq(s, i + 1, i + Len(term)) = term

\* the str a sequence of characters stands for
RECURSIVE Text(_)
Text(s) == IF s = <<>> THEN "" ELSE s[1] \o Text(Tail(s))

Range(s) == {s[i] : i \in 1..Len(s)}

(***************************************************************************)
(* validate_app_store_content                                              *)
(***************************************************************************)
IosTitleMax == 30
AndroidTitleMax == 50
DescriptionMin == 200
DescriptionMax == 4000

prohibited == << <<"#","1">>,
                 <<"b","e","s","t">>,
                 <<"t","o","p"," ","r","a","t","e","d">>,
                 <<"f","r","e","e"," ","d","o","w","n","l","o","a","d">> >>

recommendations == <<"Use natural language", "Focus on user benefits",
                     "Include clear call-to-action",
                     "Use bullet points for readability">>

IosTitleTooLongOffByOne(t, s) == s \in {"ios", "both"} /\ Len(t) >= IosTitleMax
IosTitleTooLong(t, s) == s \in {"ios", "both"} /\ Len(t) > IosTitleMax

AndroidTitleLongUnlessAndroid(t, s) == s # "ios" /\ Len(t) > AndroidTitleMax
AndroidTitleLong(t, s) == s \in {"android", "both"} /\ Len(t) > AndroidTitleMax

RepeatedWords(t) ==
    LET words == split(lower(t)) IN Len(words) # Cardinality(Range(words))

DescriptionShort(d) == Len(d) < DescriptionMin

DescriptionTooLong(d) == Len(d) > DescriptionMax

IosTitleIssue(n) == "iOS title too long: " \o ToString(n) \o " chars (max 30)"
AndroidTitleWarning(n) ==
    "Android title long: " \o ToString(n) \o " chars (recommended max 30)"
RepeatedWordsWarning == "Title has repeated words (possible keyword stuffing)"
DiscouragedTermWarning(term) == "Discouraged term in title: '" \o Text(term) \o "'"
DescriptionShortWarning(n) ==
    "Description short: " \o ToString(n) \o " chars (recommended 500+)"
DescriptionIssue(n) == "Description too long: " \o ToString(n) \o " chars (max 4000)"

\* for term in prohibited: if term in title.lower(): warnings.append(...)
RECURSIVE ProhibitedWarnings(_, _)
ProhibitedWarnings(t, i) ==
    IF i > Len(prohibited) THEN <<>>
    ELSE (IF Contains(lower(t), prohibited[i])
          THEN <<DiscouragedTermWarning(prohibited[i])>> ELSE <<>>)
         \o ProhibitedWarnings(t, i + 1)

Issues(t, d, s) ==
    (IF IosTitleTooLong(t, s) THEN <<IosTitleIssue(Len(t))>> ELSE <<>>)
    \o (IF DescriptionTooLong(d) THEN <<DescriptionIssue(Len(d))>> ELSE <<>>)

Warnings(t, d, s) ==
    (IF AndroidTitleLong(t, s) THEN <<AndroidTitleWarning(Len(t))>> ELSE <<>>)
    \o (IF RepeatedWords(t) THEN <<RepeatedWordsWarning>> ELSE <<>>)
    \o ProhibitedWarnings(t, 1)
    \o (IF DescriptionShort(d) THEN <<DescriptionShortWarning(Len(d))>> ELSE <<>>)

ValidAlsoNeedsNoWarnings(iss, warn) == Len(iss) = 0 /\ Len(warn) = 0
Valid(iss, warn) == Len(iss) = 0

\* The dict the function hands to json.dumps.
validate_app_store_content(t, d, s) ==
    LET iss == Issues(t, d, s)
        warn == Warnings(t, d, s)
    IN [valid |-> Valid(iss, warn),
        issues |-> iss,
        warnings |-> warn,
        title_length |-> Len(t),
        description_length |-> Len(d),
        recommendations |-> recommendations]

(***************************************************************************)
(* The inputs of the validator's specification.                            *)
(***************************************************************************)
MaxPad == 52

Pad(n, c) == [i \in 1..n |-> c]

TitleCores == {
    <<>>,
    <<"M","y"," ","A","p","p">>,
    <<"B","e","s","t"," ","A","p","p"," ","B","e","s","t">>,
    <<"A","p","p"," "," ","a","p","p"," ">>,
    <<"#","1"," ","T","o","p"," ","R","a","t","e","d"," ">>,
    <<"F","r","e","e"," ","D","o","w","n","l","o","a","d">>,
    <<"F","r","e","e","\t","d","o","w","n","l","o","a","d"," ">> }

Titles == {core \o Pad(n, "x") : core \in TitleCores, n \in 0..MaxPad}

DescriptionLengths == {0, 199, 200, 3999, 4000, 4001}
Descriptions == {Pad(n, "d") : n \in DescriptionLengths}

Stores == {"ios", "android", "both", "windows", "iOS", ""}

PipelineOff ==
    /\ pc = "off" /\ stage = 1 /\ started = <<>> /\ completed = <<>>
    /\ context = <<>> /\ rounds = 0 /\ attempt = 0 /\ callWait = 0
    /\ failLog = <<>> /\ final = <<>> /\ error = <<>>

ValidatorInit ==
    /\ title \in Titles
    /\ description \in Descriptions
    /\ store \in Stores
    /\ vpc = "called"
    /\ result = <<>>
    /\ PipelineOff

Validate ==
    /\ vpc = "called"
    /\ result' = <<validate_app_store_content(title, description, store)>>
    /\ vpc' = "returned"
    /\ UNCHANGED <<title, description, store>>
    /\ UNCHANGED pvars

ValidatorNext == Validate

ValidatorSpec == ValidatorInit /\ [][ValidatorNext]_vars

(***************************************************************************)
(* The declared pipeline: root_agent's sub_agents and each agent's          *)
(* output_key, tools and instruction placeholders; retry_config.           *)
(***************************************************************************)
sub_agents_swapped ==
    <<"competitor_analyst", "keyword_researcher", "content_writer", "aso_aggregator">>
sub_agents ==
    <<"keyword_researcher", "competitor_analyst", "content_writer", "aso_aggregator">>

\* an Agent built without output_key
NoKey == ""

output_key_swapped(name) ==
    CASE name = "keyword_researcher" -> "competitor_analysis"
      [] name = "competitor_analyst" -> "keyword_research"
      [] name = "content_writer" -> "content_variants"
      [] OTHER -> NoKey
output_key(name) ==
    CASE name = "keyword_researcher" -> "keyword_research"
      [] name = "competitor_analyst" -> "competitor_analysis"
      [] name = "content_writer" -> "content_variants"
      [] OTHER -> NoKey

tools(name) ==
    CASE name = "keyword_researcher" -> {"google_search"}
      [] name = "competitor_analyst" -> {"google_search"}
      [] name = "content_writer" -> {"validate_app_store_content"}
      [] OTHER -> {}

\* the {placeholders} of an agent's instruction
instruction_keys_misspelt(name) ==
    CASE name = "content_writer" -> {"keyword_research", "competitor_analysis"}
      [] name = "aso_aggregator" ->
            {"keyword_research", "competitor_analysis", "content_variant"}
      [] OTHER -> {}
instruction_keys(name) ==
    CASE name = "content_writer" -> {"keyword_research", "competitor_analysis"}
      [] name = "aso_aggregator" ->
            {"keyword_research", "competitor_analysis", "content_variants"}
      [] OTHER -> {}

attempts == 5
initial_delay == 1
exp_base == 7
http_status_codes_with_400 == {400, 429, 500, 502, 503, 504}
http_status_codes == {429, 500, 502, 503, 504}

(***************************************************************************)
(* The engine, from spec.md: the retry policy (4.2), the reasoning loop     *)
(* (4.2, 4.3) and the Pipeline Executor (4.1, 7).                           *)
(***************************************************************************)
MaxIterations == 2

\* what the backend may answer
Outputs == {"text-a", "text-b"}
Statuses == http_status_codes \cup {400, 404}
ToolNames == {"google_search", "validate_app_store_content", "unknown_tool"}

RECURSIVE Pow(_, _)
Pow(b, e) == IF e = 0 THEN 1 ELSE b * Pow(b, e - 1)

\* the delay before attempt n, n >= 2
Delay(n) == initial_delay * Pow(exp_base, n - 2)

Retryable(status) == status \in http_status_codes

CapNeverReached(r) == FALSE
CapReached(r) == r >= MaxIterations

Keys(ctx) == {ctx[i].key : i \in 1..Len(ctx)}

Init ==
    /\ pc = "ready" /\ stage = 1 /\ started = <<>> /\ completed = <<>>
    /\ context = <<>> /\ rounds = 0 /\ attempt = 0 /\ callWait = 0
    /\ failLog = <<>> /\ final = <<>> /\ error = <<>>
    /\ title = <<>> /\ description = <<>> /\ store = "both"
    /\ vpc = "idle" /\ result = <<>>

\* The mutant of Fail: the failure is recorded and the run goes on with the next stage.
FailAndContinue(name, kind) ==
    /\ error' = <<[stage |-> name, kind |-> kind]>>
    /\ pc' = IF stage < Len(sub_agents) THEN "ready" ELSE "done"
    /\ stage' = IF stage < Len(sub_agents) THEN stage + 1 ELSE stage
    /\ UNCHANGED <<started, completed, context, rounds, attempt, callWait, final>>
\* The run halts with one terminal error naming the stage and the error kind.
Fail(name, kind) ==
    /\ error' = <<[stage |-> name, kind |-> kind]>>
    /\ pc' = "failed"
    /\ UNCHANGED <<stage, started, completed, context, rounds, attempt, callWait, final>>

\* The executor takes the next stage: the run-time guard on its placeholders, then
\* the first backend call of its reasoning loop.
StartStage ==
    /\ pc = "ready"
    /\ LET name == sub_agents[stage] IN
       IF instruction_keys(name) \subseteq Keys(context)
       THEN /\ started' = Append(started, name)
            /\ pc' = "calling"
            /\ rounds' = 0
            /\ attempt' = 1
            /\ callWait' = 0
            /\ failLog' = <<>>
            /\ UNCHANGED <<stage, completed, context, final, error>>
       ELSE /\ Fail(name, "ConfigurationError")
            /\ UNCHANGED failLog
    /\ UNCHANGED vvars

\* The backend returns the final answer: the stage completes, the executor merges
\* its output into the Shared Context and moves on.
ReplyFinal ==
    /\ pc = "calling"
    /\ \E text \in Outputs :
         LET name == sub_agents[stage]
             key == output_key(name)
         IN IF key # NoKey /\ key \in Keys(context)
            THEN /\ Fail(name, "DuplicateOutputError")
                 /\ UNCHANGED failLog
            ELSE /\ context' = IF key = NoKey THEN context
                               ELSE Append(context,
                                      [key |-> key, value |-> text, writer |-> name])
                 /\ completed' = Append(completed, name)
                 /\ IF stage = Len(sub_agents)
                    THEN /\ pc' = "done"
                         /\ final' = <<text>>
                         /\ stage' = stage
                    ELSE /\ pc' = "ready"
                         /\ final' = final
                         /\ stage' = stage + 1
                 /\ UNCHANGED <<started, rounds, attempt, callWait, failLog, error>>
    /\ UNCHANGED vvars

\* The backend asks for a tool call: the cap, the dispatch, and the next backend call.
ReplyToolCalls ==
    /\ pc = "calling"
    /\ \E tool \in ToolNames :
         LET name == sub_agents[stage] IN
         IF CapReached(rounds)
         THEN /\ Fail(name, "StageExhaustedError")
              /\ UNCHANGED failLog
         ELSE IF tool \notin tools(name)
         THEN /\ Fail(name, "UnknownToolError")
              /\ UNCHANGED failLog
         ELSE /\ rounds' = rounds + 1
              /\ attempt' = 1
              /\ callWait' = 0
              /\ failLog' = <<>>
              /\ UNCHANGED <<pc, stage, started, completed, context, final, error>>
    /\ UNCHANGED vvars

\* An attempt of the backend call fails with a status.
ReplyError ==
    /\ pc = "calling"
    /\ \E status \in Statuses :
         LET name == sub_agents[stage] IN
         /\ failLog' = Append(failLog, status)
         /\ IF Retryable(status)
            THEN IF attempt < attempts
                 THEN /\ attempt' = attempt + 1
                      /\ callWait' = callWait + Delay(attempt + 1)
                      /\ UNCHANGED <<pc, stage, started, completed, context, rounds,
                                     final, error>>
                 ELSE Fail(name, "BackendUnavailableError")
            ELSE Fail(name, "BackendError")
    /\ UNCHANGED vvars

Next == StartStage \/ ReplyFinal \/ ReplyToolCalls \/ ReplyError

Spec == Init /\ [][Next]_vars

\* The backend answers every call.
FairSpec == Spec /\ WF_vars(Next)

(***************************************************************************)
(* The claims.  Each formula spells out the names and numbers of its claim *)
(* instead of reading them from the model.                                 *)
(***************************************************************************)
DeclaredOrder ==
    <<"keyword_researcher", "competitor_analyst", "content_writer", "aso_aggregator">>
DeclaredKeys == <<"keyword_research", "competitor_analysis", "content_variants">>

IsPrefix(s, t) == Len(s) <= Len(t) /\ \A i \in 1..Len(s) : s[i] = t[i]

\* C1: the stages start in the order keyword_researcher, competitor_analyst,
\* content_writer, aso_aggregator; a stage starts only after every earlier stage has
\* completed; at most one stage is in progress; no stage is started twice.
C1_StagesStartInDeclaredOrder ==
    /\ IsPrefix(started, DeclaredOrder)
    /\ IsPrefix(completed, started)
    /\ Len(started) - Len(completed) <= 1
    /\ \A i, j \in 1..Len(started) : started[i] = started[j] => i = j

C1_Witness == pc = "done" /\ started = DeclaredOrder /\ completed = DeclaredOrder

\* C2: the Shared Context is write-once and grows monotonically: every key is one of
\* keyword_research, competitor_analysis, content_variants, occurs once and is written
\* by its one stage; an entry, once written, never changes and is never removed; and
\* when the aggregator's output is returned the keys are exactly those three, inserted
\* in that order.
C2_ContextEntries ==
    /\ IsPrefix([i \in 1..Len(context) |-> context[i].key], DeclaredKeys)
    /\ \A i \in 1..Len(context) :
         /\ context[i].writer = DeclaredOrder[i]
         /\ context[i].value \in Outputs
    /\ (final # <<>> \/ pc = "done") => Len(context) = 3

C2_ContextWriteOnce ==
    /\ []C2_ContextEntries
    /\ [][IsPrefix(context, context')]_vars

C2_Witness ==
    /\ pc = "done" /\ final # <<>>
    /\ [i \in 1..Len(context) |-> context[i].key] = DeclaredKeys
    /\ context[1].value # context[2].value

\* C3: whenever a stage is started, every key its instruction references
\* (keyword_research and competitor_analysis for content_writer, those and
\* content_variants for aso_aggregator) is in the Shared Context, and the run never
\* ends in ConfigurationError.
C3_ReferencedKeysPresent ==
    /\ \A i \in 1..Len(started) :
         /\ started[i] = "content_writer" =>
              {"keyword_research", "competitor_analysis"} \subseteq Keys(context)
         /\ started[i] = "aso_aggregator" =>
              {"keyword_research", "competitor_analysis", "content_variants"}
                 \subseteq Keys(context)
    /\ \A i \in 1..Len(error) : error[i].kind # "ConfigurationError"

C3_Witness ==
    /\ pc = "calling" /\ Len(started) = 4 /\ started[4] = "aso_aggregator"
    /\ Keys(context) = {"keyword_research", "competitor_analysis", "content_variants"}

\* C4: when the execution of stage k fails the run halts there: the run has one
\* terminal error naming stage k and the error kind, no step follows it (so no later
\* stage is started and stage k is not re-run), stage k is the last stage started and
\* is not completed, and its output key is not in the Shared Context.
C4_FailureHaltsTheRun ==
    error # <<>> =>
        LET k == Len(started) IN
        /\ Len(error) = 1
        /\ pc = "failed"
        /\ ~ ENABLED Next
        /\ k >= 1
        /\ error[1].stage = DeclaredOrder[k]
        /\ error[1].kind \in {"BackendUnavailableError", "BackendError",
                              "StageExhaustedError", "UnknownToolError"}
        /\ completed = SubSeq(DeclaredOrder, 1, k - 1)
        /\ final = <<>>
        /\ k <= 3 => DeclaredKeys[k] \notin Keys(context)
        /\ Len(context) = k - 1

C4_Witness ==
    /\ pc = "failed"
    /\ error = <<[stage |-> "competitor_analyst", kind |-> "BackendUnavailableError"]>>
    /\ started = <<"keyword_researcher", "competitor_analyst">>
    /\ Keys(context) = {"keyword_research"}

\* the total wait before attempt n: 0, 1, 1+7, 1+7+49, 1+7+49+343
WaitBeforeAttempt == <<0, 1, 8, 57, 400>>

\* The schedule of spec.md 4.2 as the engine above computes it from retry_config: at
\* most 5 attempts, a wait of 7^(n-2) before attempt n, BackendUnavailableError at the
\* fifth retryable failure.  agent.py sets attempts, exp_base, initial_delay and
\* http_status_codes only; whatever else the retry layer applies is outside it.
ScheduleAsSpecified ==
    LET retryable == {429, 500, 502, 503, 504}
        allRetryable == \A i \in 1..Len(failLog) : failLog[i] \in retryable
    IN
    /\ attempt <= 5
    /\ Len(failLog) <= 5
    /\ (attempt >= 1 /\ allRetryable) =>
          /\ attempt = IF Len(failLog) = 5 THEN 5 ELSE Len(failLog) + 1
          /\ callWait = WaitBeforeAttempt[attempt]
          /\ Len(failLog) = 5 =>
                /\ pc = "failed"
                /\ error[1].kind = "BackendUnavailableError"
    /\ failLog = <<503, 503, 503, 503>> => (attempt = 5 /\ callWait = 400)
    /\ (pc = "failed" /\ error[1].kind = "BackendUnavailableError") =>
          (Len(failLog) = 5 /\ allRetryable /\ attempt = 5)

\* C6: an error whose status is not one of 429, 500, 502, 503, 504 is never retried:
\* no attempt follows it, the stage fails at that attempt, and no wait is added,
\* however few attempts were used.
C6_NonRetryableFailsAtOnce ==
    LET retryable == {429, 500, 502, 503, 504} IN
    /\ \A i \in 1..(Len(failLog) - 1) : failLog[i] \in retryable
    /\ (failLog # <<>> /\ failLog[Len(failLog)] \notin retryable) =>
          /\ pc = "failed"
          /\ error # <<>>
          /\ error[1].stage = started[Len(started)]
          /\ error[1].kind # "BackendUnavailableError"
          /\ attempt = Len(failLog)
          /\ callWait = WaitBeforeAttempt[attempt]
          /\ ~ ENABLED ReplyError

C6_Witness ==
    /\ failLog = <<400>>
    /\ pc = "failed"
    /\ attempt = 1
    /\ callWait = 0
    /\ started = <<"keyword_researcher">>

Terminated == pc \in {"done", "failed"}

\* C9: a stage's reasoning loop makes at most MaxIterations tool-call rounds, it is
\* cut with StageExhaustedError only at the cap, and whatever the backend answers the
\* run comes to an end.
C9_ReasoningLoopTerminates ==
    /\ [](rounds <= MaxIterations)
    /\ []((error # <<>> /\ error[1].kind = "StageExhaustedError")
             => rounds = MaxIterations)
    /\ <>Terminated

C9_Witness ==
    /\ pc = "failed"
    /\ error[1].kind = "StageExhaustedError"
    /\ rounds = MaxIterations
    /\ Len(started) = 3

Returned == result[1]
KnownStores == {"ios", "android", "both"}
Has(seq, message) == \E i \in 1..Len(seq) : seq[i] = message

\* C7: for a store of ios, android or both, valid is true exactly when issues is
\* empty, that is valid is false exactly when (store is ios or both and
\* len(title) > 30) or len(description) > 4000, whatever the warnings; a description
\* of 4000 characters raises no length issue and one of 4001 does.
C7_ValidIffNoIssue ==
    (vpc = "returned" /\ store \in KnownStores) =>
        /\ Returned.valid = (Returned.issues = <<>>)
        /\ Returned.valid =
             ~ (\/ (store \in {"ios", "both"} /\ Len(title) > 30)
                \/ Len(description) > 4000)
        /\ Len(description) = 4000 =>
             \A i \in 1..Len(Returned.issues) :
                 Returned.issues[i] = IosTitleIssue(Len(title))
        /\ Len(description) = 4001 =>
             Has(Returned.issues, "Description too long: 4001 chars (max 4000)")

C7_Witness ==
    /\ vpc = "returned" /\ store = "both"
    /\ Len(description) = 4000
    /\ Len(Returned.warnings) >= 2
    /\ Returned.valid

\* C8: the iOS title-length issue is present exactly when store is ios or both and
\* len(title) > 30, the Android title-length warning exactly when store is android or
\* both and len(title) > 50, each independently of the other.
C8_TitleLengthRules ==
    (vpc = "returned" /\ store \in KnownStores) =>
        LET n == Len(title)
            ios == "iOS title too long: " \o ToString(n) \o " chars (max 30)"
            android == "Android title long: " \o ToString(n)
                          \o " chars (recommended max 30)"
        IN
        /\ Has(Returned.issues, ios) = (store \in {"ios", "both"} /\ n > 30)
        /\ Has(Returned.warnings, android) = (store \in {"android", "both"} /\ n > 50)
        /\ ~ Has(Returned.warnings, ios)
        /\ ~ Has(Returned.issues, android)

C8_Witness ==
    /\ vpc = "returned" /\ store = "both" /\ Len(title) = 51
    /\ Has(Returned.issues, "iOS title too long: 51 chars (max 30)")
    /\ Has(Returned.warnings, "Android title long: 51 chars (recommended max 30)")

\* C10: with a store other than ios, android and both the call returns normally and
\* applies neither title-length rule, whatever the title's length, so valid is true
\* exactly when len(description) <= 4000.
C10_UnknownStoreSkipsTitleRules ==
    (vpc = "returned" /\ store \notin KnownStores) =>
        /\ Len(result) = 1
        /\ ~ Has(Returned.issues, IosTitleIssue(Len(title)))
        /\ ~ Has(Returned.warnings, AndroidTitleWarning(Len(title)))
        /\ \A i \in 1..Len(Returned.issues) :
               Returned.issues[i] = DescriptionIssue(Len(description))
        /\ Returned.valid = ~ (Len(description) > 4000)

C10_Witness ==
    /\ vpc = "returned" /\ store = "windows" /\ Len(title) > 50
    /\ Len(description) <= 4000
    /\ Returned.valid
    /\ Returned.issues = <<>>

====
